---- MODULE Spec2Model ----
(***************************************************************************)
(* Search session of the JRE Quote Search client (frontend/src/App.tsx).   *)
(* The session is the React state of App; handleSearch is an async         *)
(* function whose invocations suspend at `await fetch(...)` and at         *)
(* `await response.json()`.  Every invocation is a process with its own    *)
(* position; the browser decides when and how each await settles.          *)
(*                                                                         *)
(* JavaScript values are records [t |-> type tag, v |-> payload] so that   *)
(* null, undefined, arrays and non-arrays can live in the same variable.   *)
(* Strings the code takes apart (the query) are sequences of characters;   *)
(* messages the code builds by concatenation are sequences of parts.       *)
(***************************************************************************)
EXTENDS Integers, Sequences, FiniteSets, TLC

\* ---------------------------------------------------------------- bounds
MaxQueryLen == 2
MaxCalls == 3
MaxTextLen == 200
ScoreGrid == 200

\* ------------------------------------------------------ program constants
TopK == 10
SnippetLength == 150
\* result.score is a number in [0.0, 1.0]; the model keeps six decimals.
ScoreScale == 1000000

\* --------------------------------------------------------------- strings
Chars == {" ", "a"}

IsWhiteSpace(c) == c = " "

Queries == UNION {[1..n -> Chars] : n \in 0..MaxQueryLen}

RECURSIVE TrimStart(_)
TrimStart(s) ==
    IF s = <<>> THEN <<>>
    ELSE IF IsWhiteSpace(Head(s)) THEN TrimStart(Tail(s))
    ELSE s

RECURSIVE TrimEnd(_)
TrimEnd(s) ==
    IF s = <<>> THEN <<>>
    ELSE IF IsWhiteSpace(s[Len(s)]) THEN TrimEnd(SubSeq(s, 1, Len(s) - 1))
    ELSE s

\* String.prototype.trim
Trim(s) == TrimEnd(TrimStart(s))

\* --------------------------------------------------------- JS values
NullString == [t |-> "null", v |-> <<>>]
Str(parts) == [t |-> "string", v |-> parts]

NullNumber == [t |-> "null", v |-> 0]
UndefinedNumber == [t |-> "undefined", v |-> 0]
Num(n) == [t |-> "number", v |-> n]

Arr(items) == [t |-> "array", v |-> items]
UndefinedArray == [t |-> "undefined", v |-> <<>>]
NonArray == [t |-> "string", v |-> <<>>]

\* QuoteResult: the fields the client reads (score in units of 1/ScoreScale).
QuoteResult(id, sc, txt, hl) ==
    [chunk_id |-> id, score |-> sc, text |-> txt, highlight |-> hl]

\* Result arrays a response may carry: empty, one whose scores are not in
\* descending order, and the three-record one with scores 0.91, 0.55, 0.31.
ResultLists ==
    { <<>>,
      << QuoteResult(2, 550000, <<"b">>, NullString),
         QuoteResult(1, 910000, <<"a">>, Str(<<"a">>)) >>,
      << QuoteResult(1, 910000, <<"a">>, Str(<<"a">>)),
         QuoteResult(2, 550000, <<"b">>, NullString),
         QuoteResult(3, 310000, <<"c">>, Str(<<>>)) >> }

SearchTimes == {4}

\* Parsed bodies of a 2xx response.  shape = "ok" is the SearchResponse
\* interface; the others are valid JSON that does not match it.
SearchResponse ==
    { [shape |-> "ok", results |-> Arr(r), search_time_ms |-> Num(n)] :
          r \in ResultLists, n \in SearchTimes }

MalformedBodies ==
    { [shape |-> "missing", results |-> UndefinedArray, search_time_ms |-> UndefinedNumber],
      [shape |-> "nonarray", results |-> NonArray, search_time_ms |-> Num(4)],
      [shape |-> "jsonnull", results |-> UndefinedArray, search_time_ms |-> UndefinedNumber] }

JsonBodies == SearchResponse \cup MalformedBodies

StatusTexts == {"Not Found", "Internal Server Error"}

Responses ==
    {[ok |-> TRUE, statusText |-> "OK"]} \cup
    {[ok |-> FALSE, statusText |-> s] : s \in StatusTexts}

\* Values a rejected await throws into the catch block.
FetchTypeError == [isError |-> TRUE, message |-> <<"Failed to fetch">>]
JsonSyntaxError == [isError |-> TRUE, message |-> <<"Unexpected token in JSON">>]
NullDerefTypeError == [isError |-> TRUE, message |-> <<"Cannot read properties of null">>]
\* Variant: the thrown error does not carry the status text.
SearchFailedGeneric(response) ==
    [isError |-> TRUE, message |-> <<"Search failed">>]

\* throw new Error(`Search failed: ${response.statusText}`)
SearchFailedError(response) ==
    [isError |-> TRUE, message |-> <<"Search failed: ">> \o <<response.statusText>>]

\* err instanceof Error ? err.message : 'An error occurred'
ErrorMessage(err) ==
    IF err.isError THEN Str(err.message) ELSE Str(<<"An error occurred">>)

\* ----------------------------------------------------------------- state
VARIABLES
    results,      \* useState<QuoteResult[]>([])
    isLoading,    \* useState(false)
    error,        \* useState<string | null>(null)
    searchTime,   \* useState<number | null>(null)
    lastQuery,    \* useState<string>('')
    pc,           \* pc[i]: position of the i-th handleSearch invocation that reached fetch
    lastRequest,  \* body of the most recent fetch('/api/search') call
    lastOp,       \* history: the step just taken
    latestOutcome,\* history: the session right after the latest call's outcome
    appliedInGen, \* history: outcomes that changed the session since the last fetch
    enteredFrom,  \* history: the status the latest fetch was issued from
    result,       \* ResultCard props.result
    rank,         \* ResultCard props.rank
    showContext,  \* ResultCard useState(false)
    isHovered,    \* ResultCard useState(false)
    view,         \* what the last render of the rich ResultCard computed
    plainView,    \* what the last render of the plain ResultCard computed
    barQuery,     \* SearchBar useState('') (query)
    uiEvent       \* history: the user event the SearchBar or App handled last

session == <<results, error, searchTime>>
sessionVars == <<results, isLoading, error, searchTime, lastQuery, pc, lastRequest,
                 lastOp, latestOutcome, appliedInGen, enteredFrom>>
cardVars == <<result, rank, showContext, isHovered, view, plainView>>
barVars == <<barQuery, uiEvent>>
vars == <<results, isLoading, error, searchTime, lastQuery, pc, lastRequest,
          lastOp, latestOutcome, appliedInGen, enteredFrom,
          result, rank, showContext, isHovered, view, plainView,
          barQuery, uiEvent>>

\* ------------------------------------------------------- lifecycle status
\* The four states as the render path tells them apart.
Idle == ~isLoading /\ lastQuery = <<>>
InFlight == isLoading
Failed == ~isLoading /\ error.t = "string"
Succeeded == ~isLoading /\ lastQuery # <<>> /\ error.t = "null"

Status ==
    CASE InFlight -> "InFlight"
      [] Failed -> "Failed"
      [] Idle -> "Idle"
      [] OTHER -> "Succeeded"

NoRequest == [query |-> <<>>, top_k |-> 0]
NoOutcome == [set |-> FALSE, results |-> Arr(<<>>), error |-> NullString,
              searchTime |-> NullNumber]
Op(op, id, query, cause) == [op |-> op, id |-> id, query |-> query, cause |-> cause]

\* No ResultCard is mounted.
NoView == [mounted |-> FALSE, scorePercent |-> 0, displayQuote |-> <<>>,
           hasMoreContext |-> FALSE, scoreColor |-> "", scoreTextColor |-> "",
           showContext |-> FALSE]
NoPlainView == [mounted |-> FALSE, scorePercent |-> 0, scoreTextColor |-> ""]
NoCard ==
    /\ result = QuoteResult(0, 0, <<>>, NullString)
    /\ rank = 0
    /\ showContext = FALSE
    /\ isHovered = FALSE
    /\ view = NoView
    /\ plainView = NoPlainView

SessionInit ==
    /\ results = Arr(<<>>)
    /\ isLoading = FALSE
    /\ error = NullString
    /\ searchTime = NullNumber
    /\ lastQuery = <<>>
    /\ pc = <<>>
    /\ lastRequest = NoRequest
    /\ lastOp = Op("init", 0, <<>>, "none")
    /\ latestOutcome = NoOutcome
    /\ appliedInGen = 0
    /\ enteredFrom = "none"

\* The SearchBar input is empty and no event has been handled.
NoEvent == [kind |-> "none", called |-> FALSE, arg |-> <<>>]
BarInit ==
    /\ barQuery = <<>>
    /\ uiEvent = NoEvent

Init == SessionInit /\ NoCard /\ BarInit

\* ------------------------------------------------------------ handleSearch
\* Variant: the guard tests the raw string, so whitespace passes it.
IsEmptyQueryNoTrim(query) == query = <<>>

\* if (!query.trim()) return;
IsEmptyQuery(query) == Trim(query) = <<>>

\* JSON.stringify({ query: query, top_k: 10 })
RequestBody(query) == [query |-> query, top_k |-> TopK]

\* await fetch('/api/search', {...}): one outbound call, then suspension.
Fetch(query) ==
    /\ pc' = Append(pc, "fetch")
    /\ lastRequest' = RequestBody(query)

\* The body of handleSearch up to its first await.
HandleSearchBody(query) ==
    IF IsEmptyQuery(query)
    THEN /\ lastOp' = Op("handleSearch", 0, query, "none")
         /\ UNCHANGED <<results, isLoading, error, searchTime, lastQuery, pc,
                        lastRequest, latestOutcome, appliedInGen, enteredFrom>>
         /\ UNCHANGED cardVars
    ELSE /\ Len(pc) < MaxCalls
         /\ isLoading' = TRUE
         /\ error' = NullString
         /\ lastQuery' = query
         /\ Fetch(query)
         /\ lastOp' = Op("handleSearch", Len(pc) + 1, query, "none")
         /\ latestOutcome' = NoOutcome
         /\ appliedInGen' = 0
         /\ enteredFrom' = Status
         /\ UNCHANGED <<results, searchTime>>
         /\ UNCHANGED cardVars

\* handleSearch called with any argument, from any caller.
HandleSearch(query) ==
    /\ HandleSearchBody(query)
    /\ UNCHANGED barVars

\* Variant: the call is issued again when an invocation ends.
ReturnAndRetry(id) ==
    pc' = IF Len(pc) < MaxCalls
          THEN Append([pc EXCEPT ![id] = "done"], "fetch")
          ELSE [pc EXCEPT ![id] = "done"]

\* The async function returns: nothing follows the finally block.
Return(id) == pc' = [pc EXCEPT ![id] = "done"]

\* An invocation ends; the history variables record how.
Settle(id, cause) ==
    /\ Return(id)
    /\ lastOp' = Op("outcome", id, <<>>, cause)
    /\ latestOutcome' =
          IF id = Len(pc)
          THEN [set |-> TRUE, results |-> results', error |-> error',
                searchTime |-> searchTime']
          ELSE latestOutcome
    /\ appliedInGen' = IF session' # session THEN appliedInGen + 1 ELSE appliedInGen
    /\ UNCHANGED <<lastQuery, lastRequest, enteredFrom>>
    /\ UNCHANGED <<cardVars, barVars>>

\* Variant: the loading flag is left as it is when an invocation ends.
FinallySkipped == isLoading' = isLoading

\* finally { setIsLoading(false); }
Finally == isLoading' = FALSE

\* catch (err) { setError(...); setResults([]); } finally {...}
Catch(err) ==
    /\ error' = ErrorMessage(err)
    /\ results' = Arr(<<>>)
    /\ Finally
    /\ UNCHANGED searchTime

\* Variant: the records are re-sorted by descending score before display.
RECURSIVE InsertByScore(_, _)
InsertByScore(r, sorted) ==
    IF sorted = <<>> THEN <<r>>
    ELSE IF r.score > Head(sorted).score THEN <<r>> \o sorted
    ELSE <<Head(sorted)>> \o InsertByScore(r, Tail(sorted))

RECURSIVE SortByScore(_)
SortByScore(rs) ==
    IF rs = <<>> THEN <<>> ELSE InsertByScore(Head(rs), SortByScore(Tail(rs)))

ApplyDataSorted(data) ==
    /\ results' = Arr(SortByScore(data.results.v))
    /\ searchTime' = data.search_time_ms
    /\ Finally
    /\ UNCHANGED error

\* Variant: the new records are appended to the ones already shown.
ApplyDataAccumulate(data) ==
    /\ results' = Arr(results.v \o data.results.v)
    /\ searchTime' = data.search_time_ms
    /\ Finally
    /\ UNCHANGED error

\* Variant: the elapsed time of the response is not recorded.
ApplyDataNoTime(data) ==
    /\ results' = data.results
    /\ Finally
    /\ UNCHANGED <<error, searchTime>>

\* setResults(data.results); setSearchTime(data.search_time_ms); finally {...}
ApplyData(data) ==
    /\ results' = data.results
    /\ searchTime' = data.search_time_ms
    /\ Finally
    /\ UNCHANGED error

\* fetch rejects: no response was received.
FetchRejects(id) ==
    /\ id \in DOMAIN pc /\ pc[id] = "fetch"
    /\ Catch(FetchTypeError)
    /\ Settle(id, "transport")

\* fetch resolves with a response; !response.ok throws.
FetchResolves(id, response) ==
    /\ id \in DOMAIN pc /\ pc[id] = "fetch"
    /\ IF ~response.ok
       THEN /\ Catch(SearchFailedError(response))
            /\ Settle(id, "status")
       ELSE /\ pc' = [pc EXCEPT ![id] = "json"]
            /\ lastOp' = Op("response", id, <<>>, "none")
            /\ UNCHANGED <<results, isLoading, error, searchTime, lastQuery,
                           lastRequest, latestOutcome, appliedInGen, enteredFrom>>
            /\ UNCHANGED <<cardVars, barVars>>

\* response.json() rejects: the body is not JSON.
JsonRejects(id) ==
    /\ id \in DOMAIN pc /\ pc[id] = "json"
    /\ Catch(JsonSyntaxError)
    /\ Settle(id, "syntax")

\* response.json() resolves with the parsed body.
JsonResolves(id, data) ==
    /\ id \in DOMAIN pc /\ pc[id] = "json"
    /\ IF data.shape = "jsonnull"
       THEN /\ Catch(NullDerefTypeError)
            /\ Settle(id, "shape")
       ELSE /\ ApplyData(data)
            /\ Settle(id, IF data.shape = "ok" THEN "none" ELSE "shape")

Next ==
    \/ \E query \in Queries : HandleSearch(query)
    \/ \E id \in 1..MaxCalls : FetchRejects(id)
    \/ \E id \in 1..MaxCalls, response \in Responses : FetchResolves(id, response)
    \/ \E id \in 1..MaxCalls : JsonRejects(id)
    \/ \E id \in 1..MaxCalls, data \in JsonBodies : JsonResolves(id, data)

Spec == Init /\ [][Next]_vars

\* The promise returned by fetch settles.
NetworkSettles(id) ==
    \/ FetchRejects(id)
    \/ \E response \in Responses : FetchResolves(id, response)

\* The promise returned by response.json() settles.
BodySettles(id) ==
    \/ JsonRejects(id)
    \/ \E data \in JsonBodies : JsonResolves(id, data)

\* Every awaited promise of every invocation eventually settles.
SpecLive ==
    /\ Spec
    /\ \A id \in 1..MaxCalls : WF_vars(NetworkSettles(id)) /\ WF_vars(BodySettles(id))

\* ============================================================== ResultCard
\* Scores at which the double product score * 100 falls just below k + 0.5
\* although the decimal product is exactly k + 0.5 (0.145 * 100 is
\* 14.499999999999998): Math.round gives k there, not k + 1.
BinaryRoundsDown == {145000, 285000, 565000, 575000}

\* Variant: the percentage is truncated, not rounded.
MathFloorPercent(score) == (score * 100) \div ScoreScale

\* Math.round(result.score * 100): halves round up.
MathRoundPercent(score) ==
    LET exact == (score * 100 + ScoreScale \div 2) \div ScoreScale
    IN  IF score \in BinaryRoundsDown THEN exact - 1 ELSE exact

\* A string | null value used as a condition: null and '' are falsy.
Truthy(s) == s.t = "string" /\ s.v # <<>>

\* String.prototype.slice(0, n)
Slice0(s, n) == SubSeq(s, 1, IF Len(s) < n THEN Len(s) ELSE n)

Ellipsis == <<".", ".", ".">>

\* const scorePercent = Math.round(result.score * 100);
ScorePercent(r) == MathRoundPercent(r.score)

\* Variant: ?? in place of ||, so an empty highlight is shown as the quote.
DisplayQuoteNullish(r) ==
    IF r.highlight.t = "string"
    THEN r.highlight.v
    ELSE Slice0(r.text, SnippetLength)
         \o (IF Len(r.text) > SnippetLength THEN Ellipsis ELSE <<>>)

\* result.highlight || result.text.slice(0, 150) + (result.text.length > 150 ? '...' : '')
DisplayQuote(r) ==
    IF Truthy(r.highlight)
    THEN r.highlight.v
    ELSE Slice0(r.text, SnippetLength)
         \o (IF Len(r.text) > SnippetLength THEN Ellipsis ELSE <<>>)

\* Variant: ?? in place of ||, so an empty highlight counts with length 0.
HighlightLengthNullish(r) ==
    IF r.highlight.t = "string" THEN Len(r.highlight.v) ELSE SnippetLength

\* result.highlight?.length || 150
HighlightLengthOrDefault(r) ==
    IF r.highlight.t = "string" /\ Len(r.highlight.v) # 0
    THEN Len(r.highlight.v)
    ELSE SnippetLength

\* Variant: the comparison is not strict.
HasMoreContextOrEqual(r) == Len(r.text) >= HighlightLengthOrDefault(r)

\* const hasMoreContext = result.text.length > (result.highlight?.length || 150);
HasMoreContext(r) == Len(r.text) > HighlightLengthOrDefault(r)

\* Variant: the bar colour uses strict comparisons.
GetScoreColorStrict(scorePercent) ==
    IF scorePercent > 70 THEN "from-green-500 to-emerald-500"
    ELSE IF scorePercent > 50 THEN "from-yellow-500 to-orange-500"
    ELSE "from-gray-500 to-gray-600"

GetScoreColor(scorePercent) ==
    IF scorePercent >= 70 THEN "from-green-500 to-emerald-500"
    ELSE IF scorePercent >= 50 THEN "from-yellow-500 to-orange-500"
    ELSE "from-gray-500 to-gray-600"

GetScoreTextColor(scorePercent) ==
    IF scorePercent >= 70 THEN "text-green-400"
    ELSE IF scorePercent >= 50 THEN "text-yellow-400"
    ELSE "text-gray-400"

\* Variant: once the context is expanded the quote is the full text.
RenderCardExpanded(r, show) ==
    [mounted |-> TRUE,
     scorePercent |-> ScorePercent(r),
     displayQuote |-> IF HasMoreContext(r) /\ show THEN r.text ELSE DisplayQuote(r),
     hasMoreContext |-> HasMoreContext(r),
     scoreColor |-> GetScoreColor(ScorePercent(r)),
     scoreTextColor |-> GetScoreTextColor(ScorePercent(r)),
     showContext |-> HasMoreContext(r) /\ show]

\* One render of the rich ResultCard: the values its body derives.
RenderCard(r, show) ==
    [mounted |-> TRUE,
     scorePercent |-> ScorePercent(r),
     displayQuote |-> DisplayQuote(r),
     hasMoreContext |-> HasMoreContext(r),
     scoreColor |-> GetScoreColor(ScorePercent(r)),
     scoreTextColor |-> GetScoreTextColor(ScorePercent(r)),
     showContext |-> HasMoreContext(r) /\ show]

\* Variant: the plain card uses the thresholds of the rich card.
PlainScoreTextColorUnified(scorePercent) ==
    IF scorePercent >= 70 THEN "text-green-400"
    ELSE IF scorePercent >= 50 THEN "text-yellow-400"
    ELSE "text-gray-400"

\* The plain ResultCard's score badge class.
PlainScoreTextColor(scorePercent) ==
    IF scorePercent >= 80 THEN "text-green-400"
    ELSE IF scorePercent >= 60 THEN "text-yellow-400"
    ELSE "text-gray-400"

\* One render of the plain ResultCard.
RenderPlainCard(r) ==
    [mounted |-> TRUE,
     scorePercent |-> MathRoundPercent(r.score),
     scoreTextColor |-> PlainScoreTextColor(MathRoundPercent(r.score))]

\* -------------------------------------------------- App renders results
\* results.length is read while rendering; on undefined it throws.
RenderThrows == ~isLoading /\ results.t = "undefined"

\* {!isLoading && results.length > 0 && results.map((result, index) =>
\*     <div key={result.chunk_id}><ResultCard result={result} rank={index + 1} />)}
\* Position i of the sequence is index i - 1 of the array.
RenderedCards ==
    IF ~isLoading /\ results.t = "array" /\ Len(results.v) > 0
    THEN [i \in 1..Len(results.v) |->
            [key |-> results.v[i].chunk_id,
             rank |-> (i - 1) + 1,
             card |-> RenderCard(results.v[i], FALSE)]]
    ELSE <<>>

\* ------------------------------------------------------ ResultCard inputs
Letters == <<"a", "b", "c", "d", "e", "f", "g">>
\* A text of n characters whose characters depend on their position.
MkText(n) == [i \in 1..n |-> Letters[(i % 7) + 1]]
MkHighlight(n) == [i \in 1..n |-> "h"]

TextLens ==
    {0, 1, 12, 13, 200, MaxTextLen}
    \cup {SnippetLength + d : d \in -1..4}
HighlightLens == {0, 1, 12, 13, SnippetLength, SnippetLength + 1}

Highlights == {NullString} \cup {Str(MkHighlight(n)) : n \in HighlightLens}

\* Scores on a grid over [0, 1] plus the values next to the thresholds.
Scores ==
    {(k * ScoreScale) \div ScoreGrid : k \in 0..ScoreGrid}
    \cup {699999, 700000, 694999, 695000, 499999, 494999, 495000,
          799999, 794999, 594999, 750000, 550000, 910000, 310000}
    \cup BinaryRoundsDown

RawMatches ==
    {QuoteResult(1, sc, MkText(n), hl) : sc \in Scores, n \in {13}, hl \in {NullString}}
    \cup
    {QuoteResult(1, sc, MkText(n), hl) :
        sc \in {200000, 550000, 700000}, n \in TextLens, hl \in Highlights}

\* ----------------------------------------------------- ResultCard actions
CardInit ==
    /\ SessionInit
    /\ result \in RawMatches
    /\ rank = 1
    /\ showContext = FALSE
    /\ isHovered = FALSE
    /\ view = NoView
    /\ plainView = NoPlainView
    /\ BarInit

\* React calls the rich component: first render, or a re-render.
Render ==
    /\ view' = RenderCard(result, showContext)
    /\ UNCHANGED <<result, rank, showContext, isHovered, plainView>>
    /\ UNCHANGED <<sessionVars, barVars>>

\* React calls the plain component.
RenderPlain ==
    /\ plainView' = RenderPlainCard(result)
    /\ UNCHANGED <<result, rank, showContext, isHovered, view>>
    /\ UNCHANGED <<sessionVars, barVars>>

\* onClick={() => setShowContext(!showContext)}; the button exists only when
\* hasMoreContext.  The state change re-renders the card.
ToggleContext ==
    /\ view.mounted /\ view.hasMoreContext
    /\ showContext' = ~showContext
    /\ view' = RenderCard(result, showContext')
    /\ UNCHANGED <<result, rank, isHovered, plainView>>
    /\ UNCHANGED <<sessionVars, barVars>>

\* onMouseEnter={() => setIsHovered(true)}
MouseEnter ==
    /\ view.mounted /\ ~isHovered
    /\ isHovered' = TRUE
    /\ view' = RenderCard(result, showContext)
    /\ UNCHANGED <<result, rank, showContext, plainView>>
    /\ UNCHANGED <<sessionVars, barVars>>

\* onMouseLeave={() => setIsHovered(false)}
MouseLeave ==
    /\ view.mounted /\ isHovered
    /\ isHovered' = FALSE
    /\ view' = RenderCard(result, showContext)
    /\ UNCHANGED <<result, rank, showContext, plainView>>
    /\ UNCHANGED <<sessionVars, barVars>>

CardNext ==
    \/ Render
    \/ RenderPlain
    \/ ToggleContext
    \/ MouseEnter
    \/ MouseLeave

SpecCard == CardInit /\ [][CardNext]_vars

\* =============================================================== SearchBar
\* The user-facing entry points to handleSearch: the SearchBar form and the
\* suggested-search buttons of the empty state.  A render that throws
\* unmounts the page, so no event is handled after it.

\* Two of the suggested terms of App.tsx: a single word and two words.
SuggestedTerms == {<<"a">>, <<"a", " ", "a">>}

Event(kind, called, arg) == [kind |-> kind, called |-> called, arg |-> arg]

\* Variant: the form does not look at isLoading.
CanSubmitIgnoringLoading == Trim(barQuery) # <<>>

\* if (query.trim() && !isLoading)
CanSubmit == Trim(barQuery) # <<>> /\ ~isLoading

\* Variant: the typed text is passed on as typed.
SubmitArgumentRaw == barQuery

\* onSearch(query.trim())
SubmitArgument == Trim(barQuery)

\* onChange={(e) => setQuery(e.target.value)}; the input is disabled while
\* isLoading.
SetQuery(text) ==
    /\ ~RenderThrows
    /\ ~isLoading
    /\ barQuery' = text
    /\ uiEvent' = Event("change", FALSE, text)
    /\ UNCHANGED <<sessionVars, cardVars>>

\* SearchBar.handleSubmit: onSearch is App's handleSearch.
HandleSubmit ==
    /\ ~RenderThrows
    /\ IF CanSubmit
       THEN /\ HandleSearchBody(SubmitArgument)
            /\ uiEvent' = Event("submit", TRUE, SubmitArgument)
            /\ UNCHANGED barQuery
       ELSE /\ uiEvent' = Event("submit", FALSE, <<>>)
            /\ UNCHANGED <<sessionVars, cardVars, barQuery>>

\* {!isLoading && !lastQuery && ... <button onClick={() => handleSearch(term)}>}
ClickSuggested(term) ==
    /\ ~RenderThrows
    /\ ~isLoading /\ lastQuery = <<>>
    /\ HandleSearchBody(term)
    /\ uiEvent' = Event("suggested", TRUE, term)
    /\ UNCHANGED barQuery

UINext ==
    \/ \E text \in Queries : SetQuery(text)
    \/ HandleSubmit
    \/ \E term \in SuggestedTerms : ClickSuggested(term)
    \/ \E id \in 1..MaxCalls : FetchRejects(id)
    \/ \E id \in 1..MaxCalls, response \in Responses : FetchResolves(id, response)
    \/ \E id \in 1..MaxCalls : JsonRejects(id)
    \/ \E id \in 1..MaxCalls, data \in JsonBodies : JsonResolves(id, data)

SpecUI == Init /\ [][UINext]_vars

\* ------------------------------------------------------ helper predicates
\* The step just taken was a handleSearch call with a non-blank argument.
SubmittedNonEmpty(op) == op.op = "handleSearch" /\ Trim(op.query) # <<>>
\* The step just taken was a handleSearch call with a blank argument.
SubmittedEmpty(op) == op.op = "handleSearch" /\ Trim(op.query) = <<>>
\* The i-th invocation has not ended yet.
Unresolved(i) == i \in DOMAIN pc /\ pc[i] # "done"

\* ================================================================= claims

\* C1: Q1 submitted, Q2 submitted before Q1 resolves, Q2's response arrives
\* first and Q1's second: the final results, error and searchTime are the
\* ones Q2's outcome left, whatever the success/failure of Q1 and Q2.
C1_FinalStateReflectsQ2 ==
    ( /\ Len(pc) >= 2
      /\ pc[Len(pc)] = "done"
      /\ lastOp.op = "outcome"
      /\ lastOp.id = Len(pc) - 1 )
    => /\ results = latestOutcome.results
       /\ error = latestOutcome.error
       /\ searchTime = latestOutcome.searchTime

\* C2: an outcome of a call that is not the latest call is dropped: the step
\* in which it arrives leaves results, error, searchTime and isLoading
\* unchanged.
C2_StaleOutcomeDropped ==
    [][ (lastOp'.op = "outcome" /\ lastOp'.id # Len(pc))
        => UNCHANGED <<results, error, searchTime, isLoading>> ]_vars

\* C3: between two consecutive non-empty submissions (and after the last
\* one) at most one outcome changes results/error/searchTime.
C3_AtMostOneOutcomePerGeneration == appliedInGen <= 1

\* C4: a handleSearch call with an empty or whitespace-only query issues no
\* network call and leaves results, error, searchTime, lastQuery and
\* isLoading unchanged, in every session state.
C4_EmptyQueryIsNoOp ==
    [][ SubmittedEmpty(lastOp')
        => UNCHANGED <<results, error, searchTime, lastQuery, isLoading,
                       pc, lastRequest>> ]_vars

C4_Witness ==
    /\ SubmittedEmpty(lastOp)
    /\ lastOp.query # <<>>
    /\ InFlight
    /\ Unresolved(Len(pc))

\* C5: a non-empty submission issues exactly one outbound call, and no other
\* step ever issues one: no failure path retries.
C5_ExactlyOneCallPerSubmission ==
    [][ Len(pc') = Len(pc) + (IF SubmittedNonEmpty(lastOp') THEN 1 ELSE 0) ]_vars

C5_Witness ==
    /\ lastOp.op = "outcome"
    /\ lastOp.cause \in {"transport", "status", "syntax"}
    /\ Len(pc) = 1
    /\ pc[1] = "done"

\* C6: for every non-empty query passed to handleSearch, the query in the
\* request body and the recorded current query are the trimmed text.
C6_RequestCarriesTrimmedQuery ==
    SubmittedNonEmpty(lastOp)
    => /\ lastRequest.query = Trim(lastOp.query)
       /\ lastQuery = Trim(lastOp.query)

\* C7: a non-empty submission made from Idle, Succeeded or Failed sets
\* isLoading, records the query, clears the error and keeps the results; and
\* until the outcome of that submission arrives, the previous results and
\* the loading flag stay exposed together.
C7_SubmitKeepsResultsUntilOutcome ==
    [][ /\ (SubmittedNonEmpty(lastOp') /\ ~InFlight)
           => /\ isLoading'
              /\ lastQuery' = lastOp'.query
              /\ error' = NullString
              /\ results' = results
        /\ ( /\ enteredFrom \in {"Idle", "Succeeded", "Failed"}
             /\ Unresolved(Len(pc))
             /\ lastOp'.op # "handleSearch"
             /\ ~(lastOp'.op = "outcome" /\ lastOp'.id = Len(pc)) )
           => (isLoading' /\ results' = results) ]_vars

\* C8: a failure outcome leaves results empty, the error recorded and
\* isLoading false, and the session stays in exactly that state until a new
\* non-empty submission.
C8_FailedUntilNextSubmission ==
    /\ []( (lastOp.op = "outcome" /\ lastOp.cause \in {"transport", "status", "syntax"})
           => (results = Arr(<<>>) /\ error.t = "string" /\ ~isLoading) )
    /\ [][ (Failed /\ ~SubmittedNonEmpty(lastOp'))
           => UNCHANGED <<results, error, searchTime, isLoading, lastQuery>> ]_vars

\* C9: a body that is received but does not match the SearchResponse shape
\* ends the session in Failed, and its contents are never applied as
\* results.
C9_ShapeMismatchIsParseError ==
    (lastOp.op = "outcome" /\ lastOp.cause = "shape")
    => (Failed /\ results = Arr(<<>>))

\* The failure condition a recorded error message identifies.
FailureKind(e) ==
    IF e.t # "string" THEN "none"
    ELSE IF Head(e.v) = "Search failed: " THEN "status"
    ELSE IF e.v = FetchTypeError.message THEN "transport"
    ELSE "parse"

CauseClass(cause) == IF cause \in {"syntax", "shape"} THEN "parse" ELSE cause

\* C10: transport failure, non-success status and malformed/unparseable body
\* each produce a failure outcome, and the recorded outcome tells which of
\* the three it was.
C10_FailuresDistinguished ==
    lastOp.op = "outcome" => FailureKind(error) = CauseClass(lastOp.cause)

\* C11: for every non-success status the recorded error carries the server's
\* status text, and the invocation ends at that point: the body is never
\* read, so it need not be parseable.
C11_StatusTextIsErrorDetail ==
    [][ \A id \in 1..MaxCalls, response \in Responses :
          (FetchResolves(id, response) /\ ~response.ok)
          => /\ error'.t = "string"
             /\ error'.v[Len(error'.v)] = response.statusText
             /\ pc'[id] = "done" ]_vars

C11_Witness ==
    /\ lastOp.op = "outcome"
    /\ lastOp.cause = "status"
    /\ error = Str(<<"Search failed: ", "Internal Server Error">>)
    /\ Failed

\* C12: the session starts empty (no results, no error, no search time, no
\* query, not loading), and a success outcome replaces results with exactly
\* the sequence of its response: nothing of the earlier results remains.
C12_StartsEmptyAndReplaces ==
    /\ []( lastOp.op = "init"
           => /\ results = Arr(<<>>)
              /\ error = NullString
              /\ searchTime = NullNumber
              /\ lastQuery = <<>>
              /\ ~isLoading
              /\ Idle )
    /\ [][ \A id \in 1..MaxCalls, data \in SearchResponse :
             JsonResolves(id, data) => results' = data.results ]_vars

C12_Witness ==
    /\ lastOp.op = "outcome"
    /\ lastOp.cause = "none"
    /\ lastOp.id = 2
    /\ enteredFrom = "Succeeded"
    /\ results.t = "array"
    /\ Len(results.v) = 2

\* The confidence tier a score badge class stands for.
TierOfTextColor(c) ==
    CASE c = "text-green-400" -> "high"
      [] c = "text-yellow-400" -> "medium"
      [] c = "text-gray-400" -> "low"
      [] OTHER -> "none"

\* The tier rule of the rich card: high from 70, medium from 50, else low.
TierOfPercent(pct) ==
    IF pct >= 70 THEN "high" ELSE IF pct >= 50 THEN "medium" ELSE "low"

\* C13: after a success outcome the cards are rendered in exactly the order
\* of the response, card i carrying rank i (index + 1) and the tier of its
\* own record; scores 0.91, 0.55, 0.31 give high, medium, low; a response
\* whose scores are not descending is rendered in its own order, unsorted.
C13_OrderRankAndTiersPreserved ==
    [][ \A id \in 1..MaxCalls, data \in SearchResponse :
          JsonResolves(id, data)
          => LET rs == data.results.v
                 cards == RenderedCards'
             IN  /\ ~RenderThrows'
                 /\ Len(cards) = Len(rs)
                 /\ \A i \in 1..Len(rs) :
                       /\ cards[i].key = rs[i].chunk_id
                       /\ cards[i].rank = i
                       /\ TierOfTextColor(cards[i].card.scoreTextColor)
                             = TierOfPercent(MathRoundPercent(rs[i].score))
                 /\ ( [i \in 1..Len(rs) |-> rs[i].score] = <<910000, 550000, 310000>>
                      => [i \in 1..Len(cards) |->
                             TierOfTextColor(cards[i].card.scoreTextColor)]
                         = <<"high", "medium", "low">> ) ]_vars

C13_Witness ==
    /\ lastOp.op = "outcome"
    /\ lastOp.cause = "none"
    /\ Len(RenderedCards) = 2
    /\ RenderedCards[1].card.scorePercent < RenderedCards[2].card.scorePercent
    /\ RenderedCards[1].rank = 1
    /\ RenderedCards[2].rank = 2

\* The confidence tier a score bar gradient stands for.
TierOfColor(c) ==
    CASE c = "from-green-500 to-emerald-500" -> "high"
      [] c = "from-yellow-500 to-orange-500" -> "medium"
      [] c = "from-gray-500 to-gray-600" -> "low"
      [] OTHER -> "none"

\* C14: for every score in [0, 1], pct is score * 100 rounded to a nearest
\* integer, the tier is high if pct >= 70, medium if 50 <= pct < 70 and low
\* otherwise, and getScoreColor and getScoreTextColor give the same tier.
C14_TierRule ==
    view.mounted
    => LET pct == view.scorePercent
           tier == TierOfTextColor(view.scoreTextColor)
           d == result.score * 100 - pct * ScoreScale
       IN  /\ 2 * d <= ScoreScale /\ 2 * d >= -ScoreScale
           /\ tier \in {"high", "medium", "low"}
           /\ (tier = "high") = (pct >= 70)
           /\ (tier = "medium") = (pct >= 50 /\ pct < 70)
           /\ (tier = "low") = (pct < 50)
           /\ TierOfColor(view.scoreColor) = tier

C14_Witness ==
    /\ view.mounted
    /\ result.score = 695000
    /\ view.scorePercent = 70
    /\ view.scoreTextColor = "text-green-400"
    /\ view.scoreColor = "from-green-500 to-emerald-500"

\* The tier the rich card shows for its current record.
ViewTier == TierOfTextColor(view.scoreTextColor)

\* C15 as stated: score 0.70 maps to high, 0.699999 to medium, 0.50 to
\* medium and 0.2 to low.
C15_BoundaryCasesAsClaimed ==
    view.mounted
    => /\ (result.score = 700000 => ViewTier = "high")
       /\ (result.score = 699999 => ViewTier = "medium")
       /\ (result.score = 500000 => ViewTier = "medium")
       /\ (result.score = 200000 => ViewTier = "low")

\* C15 amended: score 0.70 maps to high, 0.699999 also maps to high because
\* 69.9999 rounds to 70, 0.50 maps to medium and 0.2 to low; the highest
\* six-decimal score that maps to medium is 0.694999.
C15_BoundaryCases ==
    view.mounted
    => /\ (result.score = 700000 => ViewTier = "high")
       /\ (result.score = 699999 => (view.scorePercent = 70 /\ ViewTier = "high"))
       /\ (result.score = 694999 => ViewTier = "medium")
       /\ (result.score = 500000 => ViewTier = "medium")
       /\ (result.score = 200000 => ViewTier = "low")

C15_Witness ==
    /\ view.mounted
    /\ result.score = 699999
    /\ view.scorePercent = 70
    /\ ViewTier = "high"

\* C16: with a non-null, non-empty highlight the snippet is the highlight
\* verbatim; otherwise it is the first 150 characters of the text, followed
\* by a 3-character marker exactly when the text is longer than 150 (a text
\* of 200 gives length 153; a text of at most 150 is shown unchanged).
C16_SnippetRule ==
    view.mounted
    => LET h == result.highlight
           t == result.text
           q == view.displayQuote
           n == IF Len(t) > 150 THEN 150 ELSE Len(t)
       IN  IF h.t # "null" /\ h.v # <<>>
           THEN q = h.v
           ELSE /\ Len(q) = n + (IF Len(t) > 150 THEN 3 ELSE 0)
                /\ \A i \in 1..n : q[i] = t[i]
                /\ (Len(t) > 150 => (Len(q) = 153 /\ SubSeq(q, 151, 153) = <<".", ".", ".">>))
                /\ (Len(t) <= 150 => q = t)
                /\ (Len(t) = 200 => Len(q) = 153)

C16_Witness ==
    /\ view.mounted
    /\ result.highlight = NullString
    /\ Len(result.text) = 200
    /\ Len(view.displayQuote) = 153

\* C17: hasMoreContext is true iff the text is longer than the snippet
\* source: the highlight when it is non-null and non-empty, else 150
\* characters; a highlight as long as the text gives false.
C17_ExtendedContextRule ==
    view.mounted
    => LET h == result.highlight
           t == result.text
           source == IF h.t # "null" /\ h.v # <<>> THEN Len(h.v) ELSE 150
       IN  /\ view.hasMoreContext = (Len(t) > source)
           /\ ((h.t # "null" /\ h.v # <<>> /\ Len(h.v) = Len(t)) => ~view.hasMoreContext)

C17_Witness ==
    /\ view.mounted
    /\ result.highlight.t = "string"
    /\ Len(result.highlight.v) = 13
    /\ Len(result.text) = 13
    /\ ~view.hasMoreContext

\* C18 as stated: hasMoreContext is true exactly when the full text is
\* longer than the displayed snippet, truncation marker included.
C18_LongerThanDisplayedSnippet ==
    view.mounted
    => view.hasMoreContext = (Len(result.text) > Len(view.displayQuote))

\* C18 amended: hasMoreContext is true exactly when the full text is longer
\* than the displayed snippet without its truncation marker (the highlight,
\* or the first 150 characters of the text).
C18_LongerThanSnippetWithoutMarker ==
    view.mounted
    => LET h == result.highlight
           t == result.text
           marked == (h.t = "null" \/ h.v = <<>>) /\ Len(t) > 150
           shown == IF marked THEN Len(view.displayQuote) - 3
                    ELSE Len(view.displayQuote)
       IN  view.hasMoreContext = (Len(t) > shown)

C18_Witness ==
    /\ view.mounted
    /\ result.highlight = NullString
    /\ Len(result.text) = 151
    /\ Len(view.displayQuote) = 153
    /\ view.hasMoreContext

C20_VariantsDifferOnlyInThresholds ==
    (view.mounted /\ plainView.mounted)
    => LET pct == view.scorePercent
           rich == TierOfTextColor(view.scoreTextColor)
           plain == TierOfTextColor(plainView.scoreTextColor)
       IN  /\ plainView.scorePercent = pct
           /\ (plain = "high") = (pct >= 80)
           /\ (plain = "medium") = (pct >= 60 /\ pct < 80)
           /\ (plain = "low") = (pct < 60)
           /\ (rich = plain) = ~(pct \in 50..59 \/ pct \in 70..79)
           /\ (pct \in 70..79 => (rich = "high" /\ plain = "medium"))
           /\ (pct \in 50..59 => (rich = "medium" /\ plain = "low"))

C20_Witness ==
    /\ view.mounted
    /\ plainView.mounted
    /\ view.scorePercent = 75
    /\ view.scoreTextColor = "text-green-400"
    /\ plainView.scoreTextColor = "text-yellow-400"

\* C21: SearchBar.handleSubmit invokes onSearch only when the typed query is
\* non-empty after trimming and isLoading is false, and then passes the
\* trimmed query; otherwise it invokes nothing and changes no state.
C21_SubmitGate ==
    [][ HandleSubmit
        => IF Trim(barQuery) # <<>> /\ ~isLoading
           THEN /\ uiEvent'.called
                /\ uiEvent'.arg = Trim(barQuery)
                /\ lastOp' = Op("handleSearch", Len(pc) + 1, Trim(barQuery), "none")
                /\ lastRequest'.query = Trim(barQuery)
           ELSE /\ ~uiEvent'.called
                /\ UNCHANGED <<sessionVars, barQuery>> ]_vars

C21_Witness ==
    /\ uiEvent.kind = "submit"
    /\ uiEvent.called
    /\ barQuery = <<" ", "a">>
    /\ uiEvent.arg = <<"a">>
    /\ lastRequest.query = <<"a">>
    /\ lastQuery = <<"a">>

\* C22: when every submission comes from the SearchBar form or from a
\* suggested-search button, at most one search request is unresolved in
\* every reachable state; a new request starts only after the previous one
\* has delivered its outcome.
C22_AtMostOneOutstanding ==
    /\ Cardinality({i \in DOMAIN pc : Unresolved(i)}) <= 1
    /\ \A i \in DOMAIN pc : Unresolved(i) => i = Len(pc) /\ isLoading

C22_Witness ==
    /\ Len(pc) = 2
    /\ pc[1] = "done"
    /\ Unresolved(2)
    /\ uiEvent.kind = "submit"
    /\ uiEvent.called

\* C23: for every interleaving of handleSearch calls and outcome arrivals,
\* isLoading is true exactly when at least one request is still unresolved.
C23_LoadingIffUnresolved ==
    isLoading <=> (\E i \in DOMAIN pc : Unresolved(i))

\* C24: in every reachable state of the session a non-null error implies
\* that results is empty: an error message and non-empty results are never
\* exposed together.
C24_ErrorImpliesNoResults ==
    error.t = "string" => ~(results.t = "array" /\ Len(results.v) > 0)

\* C25: provided every awaited promise settles, each non-empty submission
\* eventually ends, and a loading session eventually reaches Succeeded or
\* Failed with isLoading false, whichever path handleSearch takes.
C25_EventuallyLeavesInFlight ==
    /\ \A id \in 1..MaxCalls :
          Unresolved(id) ~> (id \in DOMAIN pc /\ pc[id] = "done")
    /\ InFlight ~> (~isLoading /\ (Succeeded \/ Failed))

C25_Witness ==
    /\ lastOp.op = "outcome"
    /\ lastOp.cause = "syntax"
    /\ pc[lastOp.id] = "done"
    /\ Failed

\* C26: in every reachable state where results is a non-empty list,
\* searchTime is a number, so the results banner, which divides searchTime
\* by 1000 without a null check, never meets null.
C26_ResultsImplySearchTime ==
    (results.t = "array" /\ Len(results.v) > 0) => searchTime.t = "number"

C26_Witness ==
    /\ ~isLoading
    /\ lastQuery # <<>>
    /\ error.t = "null"
    /\ results.t = "array"
    /\ Len(results.v) > 0
    /\ searchTime \in {Num(ms) : ms \in SearchTimes}
    /\ lastOp.op = "outcome"
    /\ lastOp.cause = "none"
====
